---- MODULE Spec2Model ----
(***************************************************************************)
(* Entry-reading engine of async_zip: the CRC-verifying ZipEntryReader     *)
(* (read/reader.rs), the random-access reader (read/seek.rs) and the       *)
(* forward-only two-state reader (read/stream.rs).                         *)
(*                                                                         *)
(* The byte source is a sequence of tokens: the local file header of each  *)
(* entry, its (possibly compressed) data, and the central directory.  A    *)
(* position is the number of tokens before the cursor.                     *)
(***************************************************************************)
EXTENDS Integers, Sequences, FiniteSets, TLC

(* ---------------------------- bounds ----------------------------------- *)
MaxEntries == 2
MaxSolo == 1
MaxLen == 2
HdrLen == 1
MaxCap == 2

(* --------------------------- helpers ----------------------------------- *)
Min(a, b) == IF a < b THEN a ELSE b

Max(a, b) == IF a > b THEN a ELSE b

\* The content of an entry of n bytes: "A", then a byte that is not UTF-8,
\* alternating.
Content(n) == [k \in 1..n |-> IF (k % 2) = 1 THEN 65 ELSE 200]

(* ------------------------- CRC32 (crc32fast) --------------------------- *)
\* A 32-bit value is the pair <<high 16 bits, low 16 bits>>.
Half == 65536

RECURSIVE XorBits(_, _)
XorBits(a, b) ==
    IF a = 0 THEN b
    ELSE IF b = 0 THEN a
    ELSE (((a % 2) + (b % 2)) % 2) + 2 * XorBits(a \div 2, b \div 2)

\* Exclusive or of two 4-bit values, tabulated.
Xor4 == [a \in 0..15 |-> [b \in 0..15 |-> XorBits(a, b)]]

\* Exclusive or of two 16-bit values, nibble by nibble.
Xor16(a, b) ==
    Xor4[a % 16][b % 16]
    + 16 * Xor4[(a \div 16) % 16][(b \div 16) % 16]
    + 256 * Xor4[(a \div 256) % 16][(b \div 256) % 16]
    + 4096 * Xor4[a \div 4096][b \div 4096]

Xor(x, y) == <<Xor16(x[1], y[1]), Xor16(x[2], y[2])>>

Not32(x) == <<(Half - 1) - x[1], (Half - 1) - x[2]>>

Shr1(x) == <<x[1] \div 2, (x[2] \div 2) + (x[1] % 2) * (Half \div 2)>>

\* The reflected CRC-32 polynomial 0xEDB88320.
CrcPoly == <<60856, 33568>>

RECURSIVE CrcBits(_, _)
CrcBits(c, k) ==
    IF k = 0 THEN c
    ELSE CrcBits(IF (c[2] % 2) = 1 THEN Xor(Shr1(c), CrcPoly) ELSE Shr1(c), k - 1)

\* The byte-at-a-time lookup table.
CrcTable == [i \in 0..255 |-> CrcBits(<<0, i>>, 8)]

Shr8(x) == <<x[1] \div 256, (x[2] \div 256) + (x[1] % 256) * 256>>

RECURSIVE CrcFold(_, _)
CrcFold(c, bs) ==
    IF bs = <<>> THEN c
    ELSE CrcFold(Xor(Shr8(c), CrcTable[Xor16(c[2] % 256, Head(bs) % 256)]), Tail(bs))

\* Hasher::update: the state is kept finalised, so an update un-complements,
\* folds the bytes in and complements again.
HasherUpdate(h, bs) == Not32(CrcFold(Not32(h), bs))

\* Hasher::new() / Hasher::default(): the CRC32 of the empty input.
HasherNew == <<0, 0>>

Crc32(bs) == HasherUpdate(HasherNew, bs)

\* A checksum different from x (a damaged stored checksum).
WrongCrc(x) == <<x[1], (x[2] + 1) % Half>>

(* ------------------------- archive and source -------------------------- *)
\* EntryMetadata.  uncompressed_size is Len(content); crc is the stored
\* checksum, which a damaged archive may hold wrong; csize is the
\* compressed size, for a stored entry the length of the content.
EntryOf(compression, content, csize, crc) ==
    [compression |-> compression, content |-> content, csize |-> csize, crc |-> crc]

\* The entries archives are built of: the empty file and a file of MaxLen
\* bytes; stored (with a right or a wrong checksum) or deflated, the
\* deflate stream one byte shorter or longer than the content.
Entries ==
    LET none == Content(0)
        full == Content(MaxLen)
    IN {EntryOf("Stored", none, 0, Crc32(none)),
        EntryOf("Stored", full, MaxLen, Crc32(full)),
        EntryOf("Stored", full, MaxLen, WrongCrc(Crc32(full))),
        EntryOf("Deflate", none, 1, Crc32(none)),
        EntryOf("Deflate", full, MaxLen - 1, Crc32(full)),
        EntryOf("Deflate", full, MaxLen + 1, Crc32(full))}

RECURSIVE ArchivesUpTo(_)
ArchivesUpTo(n) ==
    IF n = 0 THEN {<<>>}
    ELSE LET S == ArchivesUpTo(n - 1)
         IN S \cup {Append(a, e) : a \in {t \in S : Len(t) = n - 1}, e \in Entries}

UncompressedSize(e) == Len(e.content)

\* Tokens of the source.  "lfh": k-th token of entry e's local header;
\* "data": k-th raw data byte of entry e (v is the byte a stored read sees);
\* "cd": the central directory.
HdrToks(i) == [k \in 1..HdrLen |-> [t |-> "lfh", e |-> i, k |-> k, v |-> 80]]

DataToks(a, i) ==
    [k \in 1..a[i].csize |->
        [t |-> "data", e |-> i, k |-> k,
         v |-> IF a[i].compression = "Stored" THEN a[i].content[k] ELSE 120]]

RECURSIVE SourceUpTo(_, _)
SourceUpTo(a, n) ==
    IF n = 0 THEN <<>>
    ELSE SourceUpTo(a, n - 1) \o HdrToks(n) \o DataToks(a, n)

Source(a) == SourceUpTo(a, Len(a)) \o <<[t |-> "cd", e |-> 0, k |-> 1, v |-> 80]>>

HeaderOffset(a, i) == Len(SourceUpTo(a, i - 1))

DataOffset(a, i) == HeaderOffset(a, i) + HdrLen

CdOffset(a) == Len(SourceUpTo(a, Len(a)))

(* ------------------------------ state ---------------------------------- *)
VARIABLES
    archive,     \* the entries of the archive, in on-disk order
    src,         \* the bytes of the source
    pos,         \* position of the byte source
    handles,     \* live archive-reader handles: "Seek", "Ready", "Reading"
    rd,          \* the live ZipEntryReader, or NoReader
    got,         \* bytes rd has handed to its caller since it was built
    sink,        \* bytes written to the writer of the last copy_to_end_crc
    result,      \* outcome of the last operation
    opened,      \* entries opened by next_entry, in order
    resolved,    \* number of successful done()/skip()
    terminated   \* the program has panicked

vars == <<archive, src, pos, handles, rd, got, sink, result, opened, resolved, terminated>>

\* No reader.  The fields are those of ZipEntryReader (entry, reader: comp,
\* limit, dstate, pending; hasher, consumed, stream) and one that records
\* history: compared, whether compare_crc has been called on the reader.
NoReader ==
    [entry |-> 0, comp |-> "None", limit |-> 0, dstate |-> "init", pending |-> <<>>,
     hasher |-> HasherNew, consumed |-> FALSE, stream |-> FALSE, compared |-> FALSE]

\* The outcome of an operation.  index: the index passed to entry() /
\* into_entry(), else the number of the entry concerned.  cap: the free
\* bytes of the buffer read into, or the copy's buffer size.  data: the bytes the operation delivered.
\* was: the reader the operation began with (or, for a drain, compared the
\* checksum of).  at: where the source was when it began.
\* fault: what went wrong below the operation, if anything: "source" (the
\* source faulted), "sink" (the writer faulted), "data" (the decoder
\* rejected the bytes), "none".
Res(op, kind, index, cap, data, was, fault) ==
    [op |-> op, kind |-> kind, index |-> index, cap |-> cap, data |-> data,
     was |-> was, fault |-> fault, at |-> pos]

NoResult ==
    [op |-> "none", kind |-> "Ok", index |-> 0, cap |-> 0, data |-> <<>>,
     was |-> NoReader, fault |-> "none", at |-> 0]

(* ------------------------ ZipEntryReader ------------------------------- *)
\* ZipEntryReader::from_raw over CompressionReader::from_reader(_borrow):
\* a reader for entry i whose source is bounded to `size` raw bytes.
from_raw(i, compression, size, stream) ==
    [entry |-> i, comp |-> compression, limit |-> size, dstate |-> "init",
     pending |-> <<>>, hasher |-> HasherNew, consumed |-> FALSE, stream |-> stream,
     compared |-> FALSE]

\* The outcome of a read: res is "Ok", "Pending", "Err" (the source
\* returned an error), "Invalid" (the decoder returned an error) or, in a
\* copy, "SinkErr" (the writer returned an error).
Poll(r, p, out, res, touched) ==
    [r |-> r, pos |-> p, out |-> out, res |-> res, touched |-> touched]

\* Take<R>::poll_read for a stored entry: at most `limit` more bytes.
StoredPoll(r, p, cap, ev) ==
    IF r.limit = 0 THEN Poll(r, p, <<>>, "Ok", FALSE)
    ELSE IF ev = "fault" THEN Poll(r, p, <<>>, "Err", TRUE)
    ELSE IF ev = "pending" THEN Poll(r, p, <<>>, "Pending", TRUE)
    ELSE LET n == Min(Min(cap, r.limit), Len(src) - p)
         IN Poll([r EXCEPT !.limit = @ - n], p + n,
                 [k \in 1..n |-> src[p + k].v], "Ok", TRUE)

\* The raw tokens are a complete deflate stream of some entry (and whatever
\* follows it, which the decoder ignores).
Decodable(toks) ==
    /\ Len(toks) >= 1
    /\ toks[1].t = "data" /\ toks[1].k = 1
    /\ archive[toks[1].e].compression = "Deflate"
    /\ Len(toks) >= archive[toks[1].e].csize

Emit(r, p, cap, touched) ==
    LET n == Min(cap, Len(r.pending))
    IN Poll([r EXCEPT !.pending = SubSeq(@, n + 1, Len(@))], p,
            SubSeq(r.pending, 1, n), "Ok", touched)

\* DeflateDecoder<BufReader<Take<R>>>::poll_read.  The BufReader fills its
\* buffer (larger than any entry here) with every byte the Take still
\* allows; the decoder then decodes from the buffer.
DeflatePoll(r, p, cap, ev) ==
    IF cap = 0 THEN Poll(r, p, <<>>, "Ok", FALSE)
    ELSE IF r.dstate = "fail" THEN Poll(r, p, <<>>, "Invalid", FALSE)
    ELSE IF r.dstate = "ok" THEN Emit(r, p, cap, FALSE)
    ELSE IF r.limit = 0 THEN Poll([r EXCEPT !.dstate = "fail"], p, <<>>, "Invalid", FALSE)
    ELSE IF ev = "fault" THEN Poll(r, p, <<>>, "Err", TRUE)
    ELSE IF ev = "pending" THEN Poll(r, p, <<>>, "Pending", TRUE)
    ELSE LET n == Min(r.limit, Len(src) - p)
             toks == SubSeq(src, p + 1, p + n)
         IN IF Decodable(toks)
            THEN Emit([r EXCEPT !.limit = @ - n, !.dstate = "ok",
                                !.pending = archive[toks[1].e].content],
                      p + n, cap, TRUE)
            ELSE Poll([r EXCEPT !.limit = @ - n, !.dstate = "fail"],
                      p + n, <<>>, "Invalid", TRUE)

\* CompressionReader::poll_read
CompressionPoll(r, p, cap, ev) ==
    IF r.comp = "Stored" THEN StoredPoll(r, p, cap, ev) ELSE DeflatePoll(r, p, cap, ev)

\* A poll_read that looks at the buffer before it looks at the outcome: a
\* failed or pending read, which adds nothing, marks the reader consumed.
poll_read_flag_first(r, p, pre, cap, ev) ==
    LET q == CompressionPoll(r, p, cap, ev)
        prev_len == Len(pre)
        filled == pre \o q.out
    IN [q EXCEPT !.r.consumed = IF Len(filled) - prev_len = 0 THEN TRUE ELSE @,
                 !.r.hasher = IF q.res # "Ok" THEN @
                              ELSE HasherUpdate(@, SubSeq(filled, prev_len + 1, Len(filled)))]

\* A poll_read that hashes the whole filled part of the buffer, the bytes
\* it held before the read included.
poll_read_whole_buffer(r, p, pre, cap, ev) ==
    LET q == CompressionPoll(r, p, cap, ev)
        prev_len == Len(pre)
        filled == pre \o q.out
    IN IF q.res # "Ok" THEN q
       ELSE [q EXCEPT !.r.consumed = IF Len(filled) - prev_len = 0 THEN TRUE ELSE @,
                      !.r.hasher = HasherUpdate(@, filled)]

\* ZipEntryReader::poll_read into a buffer that already holds the bytes
\* `pre` and has `cap` free bytes.  `out` is what the read appended.
poll_read(r, p, pre, cap, ev) ==
    LET q == CompressionPoll(r, p, cap, ev)
        prev_len == Len(pre)
        filled == pre \o q.out
    IN IF q.res # "Ok" THEN q
       ELSE [q EXCEPT !.r.consumed = IF Len(filled) - prev_len = 0 THEN TRUE ELSE @,
                      !.r.hasher = HasherUpdate(@, SubSeq(filled, prev_len + 1, Len(filled)))]

\* compare_crc finalising the hasher it has just reset.
compare_crc_after_reset(r) ==
    [ok |-> archive[r.entry].crc = HasherNew,
     r |-> [r EXCEPT !.hasher = HasherNew, !.compared = TRUE]]

\* compare_crc finalising a copy of the hasher, which goes on accumulating.
compare_crc_keeping(r) ==
    [ok |-> archive[r.entry].crc = r.hasher, r |-> [r EXCEPT !.compared = TRUE]]

\* ZipEntryReader::compare_crc: the verdict, and the reader left behind.
compare_crc(r) ==
    [ok |-> archive[r.entry].crc = r.hasher,
     r |-> [r EXCEPT !.hasher = HasherNew, !.compared = TRUE]]

\* A drop check that forgets the stream flag.
drop_ignoring_stream(r) == ~r.consumed

\* Drop for ZipEntryReader: does releasing r panic?
drop(r) == r.stream /\ ~r.consumed

\* The event of the next source poll when fault number f is still to come.
Ev(f) == IF f = 0 THEN "fault" ELSE "ok"

\* What an unsuccessful read outcome is recorded as.
FaultOf(res) ==
    IF res = "Err" THEN "source"
    ELSE IF res = "SinkErr" THEN "sink"
    ELSE IF res = "Invalid" THEN "data"
    ELSE "none"

\* The ZipError (or the plain outcome) a read outcome surfaces as.
KindOf(res) == IF res \in {"Err", "Invalid", "SinkErr"} THEN "Io" ELSE res

Left(f, touched) == IF touched /\ f > 0 THEN f - 1 ELSE f

\* AsyncReadExt::read_to_end: read until a read produces nothing.
RECURSIVE read_to_end(_, _, _, _)
read_to_end(r, p, acc, f) ==
    LET q == poll_read(r, p, <<>>, Max(UncompressedSize(archive[r.entry]) - Len(acc), 32), Ev(f))
    IN IF q.res # "Ok" THEN Poll(q.r, q.pos, acc, q.res, TRUE)
       ELSE IF Len(q.out) = 0 THEN Poll(q.r, q.pos, acc, "Ok", TRUE)
       ELSE read_to_end(q.r, q.pos, acc \o q.out, Left(f, q.touched))

\* std::str::from_utf8 on the bytes of Content: none of them is a
\* continuation byte, so a sequence is valid exactly when it is ASCII.
Utf8Valid(bs) == \A k \in 1..Len(bs) : bs[k] < 128

\* A copy that writes out full buffers only and loses a last partial one.
RECURSIVE copy_buf_full_only(_, _, _, _, _, _)
copy_buf_full_only(r, p, cap, w, fr, fw) ==
    LET q == poll_read(r, p, <<>>, cap, Ev(fr))
    IN IF q.res # "Ok" THEN Poll(q.r, q.pos, w, q.res, TRUE)
       ELSE IF Len(q.out) = 0 THEN Poll(q.r, q.pos, w, "Ok", TRUE)
       ELSE IF fw = 0 THEN Poll(q.r, q.pos, w, "SinkErr", TRUE)
       ELSE copy_buf_full_only(q.r, q.pos, cap,
                               IF Len(q.out) = cap THEN w \o q.out ELSE w,
                               Left(fr, q.touched), Left(fw, TRUE))

\* tokio::io::copy_buf over BufReader::with_capacity(cap, &mut self): fill
\* the buffer, stop when the fill is empty, else write it out and go on.
\* fr, fw: which source poll / sink write faults (negative: none).
RECURSIVE copy_buf(_, _, _, _, _, _)
copy_buf(r, p, cap, w, fr, fw) ==
    LET q == poll_read(r, p, <<>>, cap, Ev(fr))
    IN IF q.res # "Ok" THEN Poll(q.r, q.pos, w, q.res, TRUE)
       ELSE IF Len(q.out) = 0 THEN Poll(q.r, q.pos, w, "Ok", TRUE)
       ELSE IF fw = 0 THEN Poll(q.r, q.pos, w, "SinkErr", TRUE)
       ELSE copy_buf(q.r, q.pos, cap, w \o q.out, Left(fr, q.touched), Left(fw, TRUE))

(* ---------------------- random-access reader --------------------------- *)
Events == {"ok", "fault", "pending"}

\* Which source poll / sink write of a whole operation faults (-1: none).
FaultAt == {-1, 0, 1}

\* A lookup that takes the index to count from one.
EntryGet_from_one(index) == IF 0 < index /\ index <= Len(archive) THEN index ELSE 0

\* self.file.entries.get(index): the entry (1-based here) or 0 for None.
EntryGet(index) == IF index < Len(archive) THEN index + 1 ELSE 0

\* StoredZipEntry::seek_to_data_offset: the position it leaves the source at.
seek_to_data_offset(i) == DataOffset(archive, i)

\* ZipEntryReader::new_with_borrow / new_with_owned.  `forward` is the flag
\* that marks a reader built over a forward-only source.
new_with_borrow(i, compression, size) == from_raw(i, compression, size, FALSE)

new_with_owned(i, compression, size, forward) == from_raw(i, compression, size, forward)

Quiet == UNCHANGED <<archive, src, sink, opened, resolved>>

Still == UNCHANGED <<archive, src>>

\* An entry() that trusts the source to be where the entry's data starts.
Entry_without_seek(index, ev) ==
    /\ ~terminated /\ "Seek" \in handles /\ rd = NoReader
    /\ LET i == EntryGet(index)
       IN IF i = 0
          THEN /\ result' = Res("entry", "EntryIndexOutOfBounds", index, 0, <<>>, NoReader, "none")
               /\ UNCHANGED <<pos, rd, got>>
          ELSE IF ev = "fault"
          THEN /\ result' = Res("entry", "Io", index, 0, <<>>, NoReader, "source")
               /\ UNCHANGED <<pos, rd, got>>
          ELSE /\ pos' = pos
               /\ rd' = new_with_borrow(i, archive[i].compression, UncompressedSize(archive[i]))
               /\ got' = <<>>
               /\ result' = Res("entry", "Ok", index, 0, <<>>, NoReader, "none")
    /\ UNCHANGED <<handles, terminated>>
    /\ Quiet

\* An entry(&self, index): the reader it returns does not hold the archive
\* reader exclusively, so entry() can be called again while it is live.
Entry_sharing(index, ev) ==
    /\ ~terminated /\ "Seek" \in handles
    /\ LET i == EntryGet(index)
       IN IF i = 0
          THEN /\ result' = Res("entry", "EntryIndexOutOfBounds", index, 0, <<>>, NoReader, "none")
               /\ UNCHANGED <<pos, rd, got>>
          ELSE IF ev = "fault"
          THEN /\ result' = Res("entry", "Io", index, 0, <<>>, NoReader, "source")
               /\ UNCHANGED <<pos, rd, got>>
          ELSE /\ pos' = seek_to_data_offset(i)
               /\ rd' = new_with_borrow(i, archive[i].compression, UncompressedSize(archive[i]))
               /\ got' = <<>>
               /\ result' = Res("entry", "Ok", index, 0, <<>>, NoReader, "none")
    /\ UNCHANGED <<handles, terminated>>
    /\ Quiet

\* ZipFileReader::entry(&mut self, index) -> ZipEntryReader<'_, R>: the
\* archive reader is borrowed exclusively for as long as the reader it
\* returned is live, so entry() cannot be called until that one is released.
Entry(index, ev) ==
    /\ ~terminated /\ "Seek" \in handles /\ rd = NoReader
    /\ LET i == EntryGet(index)
       IN IF i = 0
          THEN /\ result' = Res("entry", "EntryIndexOutOfBounds", index, 0, <<>>, NoReader, "none")
               /\ UNCHANGED <<pos, rd, got>>
          ELSE IF ev = "fault"
          THEN /\ result' = Res("entry", "Io", index, 0, <<>>, NoReader, "source")
               /\ UNCHANGED <<pos, rd, got>>
          ELSE /\ pos' = seek_to_data_offset(i)
               /\ rd' = new_with_borrow(i, archive[i].compression, UncompressedSize(archive[i]))
               /\ got' = <<>>
               /\ result' = Res("entry", "Ok", index, 0, <<>>, NoReader, "none")
    /\ UNCHANGED <<handles, terminated>>
    /\ Quiet

\* ZipFileReader::into_entry(self, index)
IntoEntry(index, ev) ==
    /\ ~terminated /\ "Seek" \in handles /\ rd = NoReader
    /\ handles' = handles \ {"Seek"}
    /\ LET i == EntryGet(index)
       IN IF i = 0
          THEN /\ result' = Res("into_entry", "EntryIndexOutOfBounds", index, 0, <<>>, NoReader, "none")
               /\ UNCHANGED <<pos, rd, got>>
          ELSE IF ev = "fault"
          THEN /\ result' = Res("into_entry", "Io", index, 0, <<>>, NoReader, "source")
               /\ UNCHANGED <<pos, rd, got>>
          ELSE /\ pos' = seek_to_data_offset(i)
               /\ rd' = new_with_owned(i, archive[i].compression,
                                       UncompressedSize(archive[i]), FALSE)
               /\ got' = <<>>
               /\ result' = Res("into_entry", "Ok", index, 0, <<>>, NoReader, "none")
    /\ UNCHANGED terminated
    /\ Quiet

\* The buffers a caller polls with: what they hold already, and the event
\* of the source.  A buffer that is not empty is polled once, fault-free.
ReadInputs ==
    {<<<<>>, ev>> : ev \in Events} \cup {<<<<90>>, "ok">>}

\* One poll of the live reader by its holder, into a buffer holding `pre`
\* with `cap` free bytes.
Read(pre, cap, ev) ==
    /\ ~terminated /\ rd # NoReader
    /\ LET q == poll_read(rd, pos, pre, cap, ev)
       IN /\ rd' = q.r
          /\ pos' = q.pos
          /\ got' = got \o q.out
          /\ result' = Res("read", KindOf(q.res), rd.entry, cap, q.out, NoReader, FaultOf(q.res))
    /\ UNCHANGED <<handles, terminated>>
    /\ Quiet

\* The holder calls compare_crc itself.
CompareCrc ==
    /\ ~terminated /\ rd # NoReader
    /\ LET c == compare_crc(rd)
       IN /\ rd' = c.r
          /\ result' = Res("compare_crc", IF c.ok THEN "True" ELSE "False",
                           rd.entry, 0, <<>>, NoReader, "none")
    /\ UNCHANGED <<pos, got, handles, terminated>>
    /\ Quiet

\* The holder releases the reader it owns (in the forward-only reader, by
\* releasing the Reading handle that owns it).
DropReader ==
    /\ ~terminated /\ rd # NoReader
    /\ terminated' = drop(rd)
    /\ rd' = NoReader
    /\ handles' = handles \ {"Reading"}
    /\ result' = Res("drop", IF drop(rd) THEN "Panic" ELSE "Ok", rd.entry, 0, <<>>, rd, "none")
    /\ UNCHANGED <<pos, got>>
    /\ Quiet

\* ZipEntryReader::read_to_end_crc(self); the reader is released on return.
ReadToEndCrc(f) ==
    /\ ~terminated /\ rd # NoReader /\ "Reading" \notin handles
    /\ LET q == read_to_end(rd, pos, <<>>, f)
           c == compare_crc(q.r)
       IN /\ pos' = q.pos
          /\ got' = got \o q.out
          /\ result' = Res("read_to_end_crc",
                           IF q.res # "Ok" THEN "Io"
                           ELSE IF c.ok THEN "Ok" ELSE "CRC32CheckError",
                           rd.entry, 0, IF q.res = "Ok" /\ c.ok THEN q.out ELSE <<>>,
                           IF q.res = "Ok" THEN q.r ELSE NoReader, FaultOf(q.res))
          /\ terminated' = drop(q.r)
    /\ rd' = NoReader
    /\ UNCHANGED handles
    /\ Quiet

\* ZipEntryReader::read_to_string_crc(self)
ReadToStringCrc(f) ==
    /\ ~terminated /\ rd # NoReader /\ "Reading" \notin handles
    /\ LET q == read_to_end(rd, pos, <<>>, f)
           good == q.res = "Ok" /\ Utf8Valid(q.out)
           c == compare_crc(q.r)
       IN /\ pos' = q.pos
          /\ got' = got \o q.out
          /\ result' = Res("read_to_string_crc",
                           IF ~good THEN "Io"
                           ELSE IF c.ok THEN "Ok" ELSE "CRC32CheckError",
                           rd.entry, 0, IF good /\ c.ok THEN q.out ELSE <<>>,
                           IF good THEN q.r ELSE NoReader,
                           IF q.res = "Ok" /\ ~good THEN "data" ELSE FaultOf(q.res))
          /\ terminated' = drop(q.r)
    /\ rd' = NoReader
    /\ UNCHANGED handles
    /\ Quiet

\* A copy_to_end_crc that takes back what it wrote when the check fails.
CopyToEndCrc_retracting(cap, fr, fw) ==
    /\ ~terminated /\ rd # NoReader /\ "Reading" \notin handles
    /\ LET q == copy_buf(rd, pos, cap, <<>>, fr, fw)
           c == compare_crc(q.r)
           res == Res("copy_to_end_crc",
                      IF q.res # "Ok" THEN "Panic"
                      ELSE IF c.ok THEN "Ok" ELSE "CRC32CheckError",
                      rd.entry, cap, q.out, rd, FaultOf(q.res))
       IN /\ pos' = q.pos
          /\ got' = got \o q.out
          /\ sink' = IF q.res = "Ok" /\ ~c.ok THEN <<>> ELSE q.out
          /\ result' = res
          /\ terminated' = (q.res # "Ok" \/ drop(q.r))
    /\ rd' = NoReader
    /\ UNCHANGED <<handles, opened, resolved>>
    /\ Still

\* ZipEntryReader::copy_to_end_crc(self, writer, buffer): `cap` is the
\* buffer size; the writer starts empty.  Any error of the copy is unwrapped.
CopyToEndCrc(cap, fr, fw) ==
    /\ ~terminated /\ rd # NoReader /\ "Reading" \notin handles
    /\ LET q == copy_buf(rd, pos, cap, <<>>, fr, fw)
           c == compare_crc(q.r)
           res == Res("copy_to_end_crc",
                      IF q.res # "Ok" THEN "Panic"
                      ELSE IF c.ok THEN "Ok" ELSE "CRC32CheckError",
                      rd.entry, cap, q.out, rd, FaultOf(q.res))
       IN /\ pos' = q.pos
          /\ got' = got \o q.out
          /\ sink' = q.out
          /\ result' = res
          /\ terminated' = (q.res # "Ok" \/ drop(q.r))
    /\ rd' = NoReader
    /\ UNCHANGED <<handles, opened, resolved>>
    /\ Still

\* The state after construction of an archive reader holding handle h over
\* an archive of at most n entries, the source at its start.
InitOf(n, h) ==
    /\ archive \in ArchivesUpTo(n)
    /\ src = Source(archive)
    /\ pos = 0
    /\ handles = {h}
    /\ rd = NoReader
    /\ got = <<>>
    /\ sink = <<>>
    /\ result = NoResult
    /\ opened = <<>>
    /\ resolved = 0
    /\ terminated = FALSE

InitSeek == InitOf(MaxEntries, "Seek")

NextSeek ==
    \/ \E index \in 0..MaxEntries, ev \in {"ok", "fault"} : Entry(index, ev)
    \/ \E index \in 0..MaxEntries, ev \in {"ok", "fault"} : IntoEntry(index, ev)
    \/ \E cap \in 0..MaxCap, in \in ReadInputs : Read(in[1], cap, in[2])
    \/ DropReader
    \/ \E f \in FaultAt : ReadToEndCrc(f)
    \/ \E f \in FaultAt : ReadToStringCrc(f)

SpecSeek == InitSeek /\ [][NextSeek]_vars

InitCopy == InitOf(MaxSolo, "Seek")

\* At most one fault per copy: of a source poll or of a sink write.
CopyFaults == {ff \in FaultAt \X FaultAt : ff[1] = -1 \/ ff[2] = -1}

NextCopy ==
    \/ \E index \in 0..MaxEntries, ev \in {"ok", "fault"} : Entry(index, ev)
    \/ \E cap \in 0..MaxCap, in \in ReadInputs : Read(in[1], cap, in[2])
    \/ \E cap \in 0..MaxCap, ff \in CopyFaults : CopyToEndCrc(cap, ff[1], ff[2])

SpecCopy == InitCopy /\ [][NextCopy]_vars

(* ----------------------- forward-only reader --------------------------- *)
SkipChunk == 2048

\* crate::read::lfh at position p: the entry whose local header starts
\* there, nothing at the central directory, a format error anywhere else.
lfh(p) ==
    IF p < Len(src) /\ src[p + 1].t = "lfh" /\ src[p + 1].k = 1
    THEN [kind |-> "Some", entry |-> src[p + 1].e, pos |-> p + HdrLen]
    ELSE IF p < Len(src) /\ src[p + 1].t = "cd"
    THEN [kind |-> "None", entry |-> 0, pos |-> p]
    ELSE [kind |-> "Format", entry |-> 0, pos |-> p]

\* next_entry taking the Ready handle by reference: it stays usable.
next_entry_handles_borrowing(hs, some) ==
    hs \cup (IF some THEN {"Reading"} ELSE {})

\* The handles left by next_entry(self): the Ready handle is moved in, a
\* Reading handle comes out when an entry was opened.
next_entry_handles(hs, some) ==
    (hs \ {"Ready"}) \cup (IF some THEN {"Reading"} ELSE {})

\* The handles left by done(self) / skip(self): the Reading handle is moved
\* in, a Ready handle comes out on success.
resolve_handles(hs, ok) ==
    (hs \ {"Reading"}) \cup (IF ok THEN {"Ready"} ELSE {})

\* ZipFileReader<Ready<R>>::next_entry
NextEntry(ev) ==
    /\ ~terminated /\ "Ready" \in handles
    /\ LET h == lfh(pos)
           some == ev # "fault" /\ h.kind = "Some"
           e == h.entry
       IN /\ handles' = next_entry_handles(handles, some)
          /\ IF ev = "fault"
             THEN /\ result' = Res("next_entry", "Io", 0, 0, <<>>, NoReader, "source")
                  /\ UNCHANGED <<pos, rd, got, opened>>
             ELSE IF ~some
             THEN /\ result' = Res("next_entry", h.kind, 0, 0, <<>>, NoReader,
                                   IF h.kind = "Format" THEN "data" ELSE "none")
                  /\ UNCHANGED <<pos, rd, got, opened>>
             ELSE /\ pos' = h.pos
                  /\ rd' = new_with_owned(e, archive[e].compression,
                                          UncompressedSize(archive[e]), TRUE)
                  /\ got' = <<>>
                  /\ opened' = Append(opened, e)
                  /\ result' = Res("next_entry", "Some", e, 0, <<>>, NoReader, "none")
    /\ UNCHANGED <<sink, resolved, terminated>>
    /\ Still

\* while self.0.0.read(&mut [0; 2048]).await? != 0 {}
RECURSIVE skip_loop(_, _, _, _)
skip_loop(r, p, acc, f) ==
    LET q == poll_read(r, p, <<>>, SkipChunk, Ev(f))
    IN IF q.res # "Ok" THEN Poll(q.r, q.pos, acc, q.res, TRUE)
       ELSE IF Len(q.out) = 0 THEN Poll(q.r, q.pos, acc, "Ok", TRUE)
       ELSE skip_loop(q.r, q.pos, acc \o q.out, Left(f, q.touched))

\* A done() that reads on until the entry ends before it looks at what it
\* found.
Done_draining(ev) ==
    /\ ~terminated /\ "Reading" \in handles
    /\ LET q == skip_loop(rd, pos, <<>>, IF ev = "fault" THEN 0 ELSE -1)
           ok == q.res = "Ok" /\ Len(q.out) = 0
       IN /\ pos' = q.pos
          /\ handles' = resolve_handles(handles, ok)
          /\ resolved' = IF ok THEN resolved + 1 ELSE resolved
          /\ terminated' = drop(q.r)
          /\ result' = Res("done",
                           IF q.res # "Ok" THEN "Io"
                           ELSE IF ok THEN "Ok" ELSE "CRC32CheckError",
                           rd.entry, 1, q.out, rd, FaultOf(q.res))
    /\ rd' = NoReader
    /\ UNCHANGED <<got, sink, opened>>
    /\ Still

\* ZipFileReader<Reading<R>>::done
Done(ev) ==
    /\ ~terminated /\ "Reading" \in handles
    /\ LET q == poll_read(rd, pos, <<>>, 1, ev)
           ok == q.res = "Ok" /\ Len(q.out) = 0
       IN /\ pos' = q.pos
          /\ handles' = resolve_handles(handles, ok)
          /\ resolved' = IF ok THEN resolved + 1 ELSE resolved
          /\ terminated' = drop(q.r)
          /\ result' = Res("done",
                           IF q.res # "Ok" THEN "Io"
                           ELSE IF ok THEN "Ok" ELSE "CRC32CheckError",
                           rd.entry, 1, q.out, rd, FaultOf(q.res))
    /\ rd' = NoReader
    /\ UNCHANGED <<got, sink, opened>>
    /\ Still

\* ZipFileReader<Reading<R>>::skip
Skip(f) ==
    /\ ~terminated /\ "Reading" \in handles
    /\ LET q == skip_loop(rd, pos, <<>>, f)
           ok == q.res = "Ok"
       IN /\ pos' = q.pos
          /\ handles' = resolve_handles(handles, ok)
          /\ resolved' = IF ok THEN resolved + 1 ELSE resolved
          /\ terminated' = drop(q.r)
          /\ result' = Res("skip", IF ok THEN "Ok" ELSE "Io",
                           rd.entry, SkipChunk, q.out, rd, FaultOf(q.res))
    /\ rd' = NoReader
    /\ UNCHANGED <<got, sink, opened>>
    /\ Still

InitStream == InitOf(MaxEntries, "Ready")

NextStream ==
    \/ \E ev \in {"ok", "fault"} : NextEntry(ev)
    \/ \E cap \in 0..MaxCap, in \in ReadInputs : Read(in[1], cap, in[2])
    \/ \E ev \in {"ok", "fault"} : Done(ev)
    \/ \E f \in FaultAt : Skip(f)
    \/ DropReader

SpecStream == InitStream /\ [][NextStream]_vars

(* ------------------- one entry reader, either source ------------------- *)
InitReader == InitOf(MaxSolo, "Seek") \/ InitOf(MaxSolo, "Ready")

NextReader ==
    \/ \E index \in 0..MaxSolo, ev \in {"ok", "fault"} : Entry(index, ev)
    \/ \E ev \in {"ok", "fault"} : NextEntry(ev)
    \/ \E cap \in 0..MaxCap, in \in ReadInputs : Read(in[1], cap, in[2])
    \/ CompareCrc
    \/ DropReader

SpecReader == InitReader /\ [][NextReader]_vars

(* ------------------------------ claims --------------------------------- *)
IsPrefix(a, b) == Len(a) <= Len(b) /\ a = SubSeq(b, 1, Len(a))

IsSuffix(a, b) == Len(a) <= Len(b) /\ a = SubSeq(b, Len(b) - Len(a) + 1, Len(b))

Drains == {"read_to_end_crc", "read_to_string_crc"}

\* C1: in the forward-only reader at most one handle exists at any time, a
\* Reading handle exists exactly while an entry is open, an entry is opened
\* only when every entry opened before it went back to Ready through a
\* successful done() or skip(), and entries are opened in on-disk order.
C1_OneEntryAtATime ==
    /\ Cardinality(handles) <= 1
    /\ ("Reading" \in handles) <=> (rd # NoReader)
    /\ resolved <= Len(opened) /\ Len(opened) <= resolved + 1
    /\ "Ready" \in handles => Len(opened) = resolved
    /\ "Reading" \in handles => Len(opened) = resolved + 1
    /\ \A j, k \in 1..Len(opened) : j < k => opened[j] < opened[k]

C1_SecondEntryOpen ==
    /\ Len(opened) = 2 /\ resolved = 1
    /\ handles = {"Reading"}

\* C2: releasing an EntryReader terminates the program exactly when its
\* stream flag is set and its consumed flag is not.
C2_DropPanicsIffStreamUnconsumed ==
    result.op = "drop" =>
        /\ terminated <=> (result.was.stream /\ ~result.was.consumed)
        /\ ~result.was.stream => ~terminated

C2_UnconsumedStreamReaderDropped ==
    /\ result.op = "drop"
    /\ result.was.stream /\ ~result.was.consumed
    /\ terminated

\* C3: done() with at least one byte of the entry unread fails with an error
\* that is not the checksum-mismatch error.
C3_DoneUnreadIsConsistencyError ==
    (result.op = "done" /\ Len(result.data) > 0) =>
        result.kind \notin {"Ok", "CRC32CheckError"}

\* C4: skip() on an open entry, the source not faulting, drains the entry to
\* its end and returns a Ready handle on which next_entry() finds the entry
\* that follows on disk, or the central directory.
C4_SkipReachesNextEntry ==
    (result.op = "skip" /\ result.fault # "source") =>
        /\ result.kind = "Ok" /\ ~terminated
        /\ handles = {"Ready"}
        /\ pos = DataOffset(archive, result.index) + archive[result.index].csize
        /\ IF result.index < Len(archive)
           THEN lfh(pos).kind = "Some" /\ lfh(pos).entry = result.index + 1
           ELSE lfh(pos).kind = "None"

\* C5: read_to_end_crc / read_to_string_crc that ran to the checksum
\* comparison did so after reading the whole entry, return Ok exactly when
\* the stored checksum is the CRC32 of the bytes the reader produced, the
\* checksum-mismatch error otherwise, and on Ok return the bytes they read.
C5_DrainVerified ==
    /\ (result.op \in Drains /\ result.fault = "none") =>
            result.kind \in {"Ok", "CRC32CheckError"}
    /\ (result.op \in Drains /\ result.kind \in {"Ok", "CRC32CheckError"}) =>
            /\ got = archive[result.index].content
            /\ result.was.consumed
            /\ (result.kind = "Ok") <=> (archive[result.index].crc = Crc32(got))
            /\ result.kind = "Ok" => IsSuffix(result.data, got)
            /\ result.kind = "CRC32CheckError" => result.data = <<>>

C5_MismatchFound ==
    /\ result.op \in Drains
    /\ result.kind = "CRC32CheckError"
    /\ Len(got) = MaxLen

\* What one ordered pass over the source delivers for entry i: the bytes of
\* its data range, decoded.
StreamingPass(i) ==
    LET toks == SubSeq(src, DataOffset(archive, i) + 1,
                       DataOffset(archive, i) + archive[i].csize)
    IN IF archive[i].compression = "Stored"
       THEN [k \in 1..Len(toks) |-> toks[k].v]
       ELSE archive[toks[1].e].content

\* The live reader, or the drain that just ended, read its entry to the end.
FullyRead ==
    \/ result.op = "read" /\ result.kind = "Ok" /\ result.cap > 0 /\ result.data = <<>>
    \/ result.op \in Drains /\ result.kind \in {"Ok", "CRC32CheckError"}

\* C6: whatever entry() calls and partial reads came before, the bytes read
\* from an entry of the random-access reader are a prefix of what an ordered
\* pass delivers for it, and all of it once the entry is read to its end.
C6_SameAsStreamingPass ==
    /\ rd # NoReader => IsPrefix(got, StreamingPass(rd.entry))
    /\ FullyRead => got = StreamingPass(result.index)

C6_SecondEntryFullyRead ==
    /\ FullyRead
    /\ result.index = 2
    /\ Len(got) = MaxLen
    /\ "Seek" \in handles

\* C7: entry() and into_entry() fail with the index-out-of-bounds error
\* exactly when the index is not below the number of entries, and then leave
\* the source position alone and build no reader.
C7_OutOfBounds ==
    [][result'.op \in {"entry", "into_entry"} =>
         /\ (result'.kind = "EntryIndexOutOfBounds") <=> (result'.index >= Len(archive))
         /\ result'.kind = "EntryIndexOutOfBounds" => (pos' = pos /\ rd' = NoReader)]_vars

C7_OutOfBoundsAfterReads ==
    /\ result.op = "entry"
    /\ result.kind = "EntryIndexOutOfBounds"
    /\ result.index = Len(archive)
    /\ pos > 0

Completed(c) == c.op = "copy_to_end_crc" /\ c.kind \in {"Ok", "CRC32CheckError"}

\* The copy that just completed, run again from the state it started in with
\* buffer size c, writes the same bytes and returns the same result.
SameWithSize(c) ==
    LET q == copy_buf(result.was, result.at, c, <<>>, -1, -1)
    IN /\ q.res = "Ok"
       /\ q.out = result.data
       /\ compare_crc(q.r).ok <=> (result.kind = "Ok")

\* C8 as stated: two copies of the same entry with any two buffer sizes
\* write the same bytes and return the same result.
C8_AnyTwoSizes ==
    Completed(result) => \A c \in 0..MaxCap : SameWithSize(c)

\* C8 amended: two copies of the same entry with any two buffer sizes of at
\* least one byte write the same bytes and return the same result.
C8_AnyTwoPositiveSizes ==
    (Completed(result) /\ result.cap >= 1) => \A c \in 1..MaxCap : SameWithSize(c)

C8_WholeEntryCopied ==
    /\ Completed(result)
    /\ result.cap = 1
    /\ result.was.limit = MaxLen
    /\ result.data = archive[result.index].content
    /\ result.kind = "Ok"

\* C9: a fault of the source or of the sink during copy_to_end_crc comes
\* back as an I/O error value and does not terminate the program.
C9_CopyFaultIsReturned ==
    (result.op = "copy_to_end_crc" /\ result.fault \in {"source", "sink"}) =>
        (result.kind = "Io" /\ ~terminated)

C11_HasherIsCrcOfHanded ==
    rd # NoReader => rd.hasher = Crc32(got)

C11_FaultAfterBytesHanded ==
    /\ rd # NoReader
    /\ result.op = "read" /\ result.kind = "Io" /\ result.fault = "source"
    /\ Len(got) >= 1
    /\ rd.hasher # HasherNew
C14_SinkKeptOnMismatch ==
    (result.op = "copy_to_end_crc" /\ result.kind = "CRC32CheckError") =>
        /\ sink = result.data
        /\ IsSuffix(sink, got)
        /\ result.cap >= 1 =>
              /\ got = archive[result.index].content
              /\ result.was.comp = "Stored" => Len(sink) = result.was.limit
        /\ result.cap = 0 => sink = <<>>

C14_WholeEntryInSinkOnMismatch ==
    /\ result.op = "copy_to_end_crc" /\ result.kind = "CRC32CheckError"
    /\ result.cap >= 1
    /\ Len(sink) = MaxLen
    /\ archive[result.index].crc # Crc32(sink)
\* C15: the reader that entry(), into_entry() or next_entry() has just built
\* may take from the source as many raw bytes as the entry's compressed size.
C15_BoundedToCompressedSize ==
    (result.op \in {"entry", "into_entry", "next_entry"} /\ rd # NoReader) =>
        rd.limit = archive[rd.entry].csize
\* C16: whenever the forward-only reader is Ready (at the start, and after
\* every successful done() or skip()) the source stands exactly at a local
\* file header or at the start of the central directory, and after a
\* successful done() or skip() exactly at the end of the finished entry's
\* data.
C16_ReadyAtHeader ==
    "Ready" \in handles =>
        /\ lfh(pos).kind \in {"Some", "None"}
        /\ (result.op \in {"done", "skip"} /\ result.kind = "Ok") =>
              pos = DataOffset(archive, result.index) + archive[result.index].csize
C18_ConsumedMeansAtEnd ==
    /\ (rd # NoReader /\ rd.consumed) => got = archive[rd.entry].content
    /\ Completed(result) => got = archive[result.index].content
\* C19: a done() or skip() that fails hands its error back to the caller:
\* the release of the Reading handle and of its reader on that path does
\* not terminate the program.
C19_FailingResolveReturnsError ==
    (result.op \in {"done", "skip"} /\ result.kind # "Ok") => ~terminated
\* C20: once the consumed flag of a reader is set it stays set for as long
\* as the reader lives, and every later successful read produces no byte and
\* leaves the checksum accumulator as it was.
C20_ConsumedIsFinal ==
    [][(rd # NoReader /\ rd.consumed /\ rd' # NoReader) =>
         /\ rd'.consumed
         /\ (result'.op = "read" /\ result'.kind = "Ok") =>
               (result'.data = <<>> /\ rd'.hasher = rd.hasher)
      ]_vars
====
